---- MODULE Spec2Model ----
(***************************************************************************)
(* State-machine model of ember_csi/v1_0_0/csi.py: the CSI v1.0.0          *)
(* Controller, Node and All plugin classes.                                *)
(*                                                                         *)
(* Every inbound request is served by a worker thread of the gRPC server.  *)
(* A worker receives a request, runs the handler and returns.  Handlers    *)
(* that only touch the record store run in one step; NodeGetVolumeStats,   *)
(* which sits behind the per-volume gate and performs several system       *)
(* calls, is split at each call.  context.abort raises, so a handler ends  *)
(* at its first abort.  The results of system calls and of the mount table *)
(* lookups are inputs chosen at the step that performs them.               *)
(***************************************************************************)
EXTENDS Integers, Sequences, FiniteSets, TLC

VARIABLES
    CONF,                \* process-wide configuration (config.CONF)
    PLUGIN_CAPABILITIES, \* class-level list shared by every plugin instance
    instances,           \* the plugin instances constructed so far
    volumes,             \* persisted volume records, by id
    snapshots,           \* persisted snapshot records, by id
    pool,                \* the worker threads of the server
    workers,             \* each worker's position, request, locals and result
    CURRENT_WORKERS      \* the gate: volume id -> worker inside the gated body

vars == <<CONF, PLUGIN_CAPABILITIES, instances, volumes, snapshots, pool,
          workers, CURRENT_WORKERS>>

-----------------------------------------------------------------------------
(* Bounds of the model *)

MaxVols == 2
MaxSize == 2
NumWorkers == 2
MaxInstances == 2

-----------------------------------------------------------------------------
(* Values *)

None == "None"

\* constants.GB and the sector size of /sys/class/block/<dev>/size
GB == 1073741824
SECTOR == 512

IdNames == <<"v1", "v2", "v3", "v4", "v5">>
VolIds == {IdNames[i] : i \in 1..MaxVols}
\* an id that never names a record
GhostId == "v0"
ReqIds == VolIds \cup {GhostId}

Names == {"n1", "n2"}
Sizes == 1..MaxSize
Statuses == {"creating", "available", "in-use", "error", "deleting"}
SnapIds == {"s1"}

Keys == {"k1", "k2"}
Vals == {"a", "b"}
EmptyMap == [k \in {} |-> None]
Maps == UNION {[D -> Vals] : D \in SUBSET Keys}

\* extra_specs of the only volume type
TypeSpecs == [t1 |-> ("k1" :> "a")]

TopologySegments == ("zone" :> "z1")
VOLUME_ACCESSIBILITY_CONSTRAINTS == "VOLUME_ACCESSIBILITY_CONSTRAINTS"

\* A persisted volume record and the attributes it has.
VolumeRecord(id, name, size, status, src, snap, type) ==
    [id |-> id, name |-> name, size |-> size, status |-> status,
     source_volid |-> src, snapshot_id |-> snap, volume_type_id |-> type]

HasAttr(obj, attr) == attr \in DOMAIN obj

\* Results of a handler: a response, an abort with a status code, or an
\* exception that escapes the handler.
Ok(body) == [code |-> "OK", body |-> body]
Abort(code, text, arg) == [code |-> code, body |-> <<text, arg>>]
Raise(exc) == [code |-> exc, body |-> <<>>]
NoResult == [code |-> None, body |-> <<>>]

-----------------------------------------------------------------------------
(* Persistence and backend collaborators *)

\* self._get_vol: the record in a one-element sequence, or the empty
\* sequence (falsy) when no record has the id.
_get_vol(vols, volume_id) ==
    IF volume_id \in DOMAIN vols THEN <<vols[volume_id]>> ELSE <<>>

_get_snap(snaps, snapshot_id) ==
    IF snapshot_id \in DOMAIN snaps THEN <<snaps[snapshot_id]>> ELSE <<>>

\* The id the persistence layer gives the next record.
FreshId(vols) == IdNames[Cardinality(DOMAIN vols) + 1]

\* src_vol.clone(name=, size=): a new record of the source's type that
\* refers back to the source.
clone(src_vol, new_id, name, size) ==
    VolumeRecord(new_id, name, size, "available", src_vol.id, None,
                 src_vol.volume_type_id)

\* The default create path of the base controller.
default_create_volume(new_id, name, vol_size) ==
    [code |-> "OK", body |-> <<>>,
     vol |-> <<VolumeRecord(new_id, name, vol_size, "available", None, None, None)>>]

-----------------------------------------------------------------------------
(* Controller: content-source resolution *)

Created(vol) == [code |-> "OK", body |-> <<>>, vol |-> <<vol>>]
Aborted(code, text, arg) == [code |-> code, body |-> <<text, arg>>, vol |-> <<>>]

\* A clone whose size is taken from the source instead of the request.
_create_from_vol_srcsize(vols, new_id, vol_id, vol_size, name) ==
    LET src_vol == _get_vol(vols, vol_id) IN
    IF src_vol = <<>>
    THEN Aborted("NOT_FOUND", "Volume %s does not exist", vol_id)
    ELSE IF src_vol[1].status \notin {"available", "in-use"}
    THEN Aborted("INVALID_ARGUMENT", "Volume %s is not available", vol_id)
    ELSE IF src_vol[1].size > vol_size
    THEN Aborted("OUT_OF_RANGE", "Volume %s is bigger than requested volume", vol_id)
    ELSE Created(clone(src_vol[1], new_id, name, src_vol[1].size))

\* The size check made before the status check.
_create_from_vol_sizefirst(vols, new_id, vol_id, vol_size, name) ==
    LET src_vol == _get_vol(vols, vol_id) IN
    IF src_vol = <<>>
    THEN Aborted("NOT_FOUND", "Volume %s does not exist", vol_id)
    ELSE IF src_vol[1].size > vol_size
    THEN Aborted("OUT_OF_RANGE", "Volume %s is bigger than requested volume", vol_id)
    ELSE IF src_vol[1].status \notin {"available", "in-use"}
    THEN Aborted("INVALID_ARGUMENT", "Volume %s is not available", vol_id)
    ELSE Created(clone(src_vol[1], new_id, name, vol_size))

\* A missing source reported as an unavailable one.
_create_from_vol_nolookup(vols, new_id, vol_id, vol_size, name) ==
    LET src_vol == _get_vol(vols, vol_id) IN
    IF src_vol = <<>>
    THEN Aborted("INVALID_ARGUMENT", "Volume %s is not available", vol_id)
    ELSE IF src_vol[1].status \notin {"available", "in-use"}
    THEN Aborted("INVALID_ARGUMENT", "Volume %s is not available", vol_id)
    ELSE IF src_vol[1].size > vol_size
    THEN Aborted("OUT_OF_RANGE", "Volume %s is bigger than requested volume", vol_id)
    ELSE Created(clone(src_vol[1], new_id, name, vol_size))

_create_from_vol(vols, new_id, vol_id, vol_size, name) ==
    LET src_vol == _get_vol(vols, vol_id) IN
    IF src_vol = <<>>
    THEN Aborted("NOT_FOUND", "Volume %s does not exist", vol_id)
    ELSE IF src_vol[1].status \notin {"available", "in-use"}
    THEN Aborted("INVALID_ARGUMENT", "Volume %s is not available", vol_id)
    ELSE IF src_vol[1].size > vol_size
    THEN Aborted("OUT_OF_RANGE", "Volume %s is bigger than requested volume", vol_id)
    ELSE Created(clone(src_vol[1], new_id, name, vol_size))

\* The snapshot path of the base controller: the clone-from-volume path on
\* the snapshot's owning volume, the result tagged as snapshot-derived.
_create_from_snap(vols, snaps, new_id, snapshot_id, vol_size, name) ==
    LET snap == _get_snap(snaps, snapshot_id) IN
    IF snap = <<>>
    THEN Aborted("NOT_FOUND", "Snapshot %s does not exist", snapshot_id)
    ELSE LET r == _create_from_vol(vols, new_id, snap[1].volume_id, vol_size, name) IN
         IF r.code # "OK" THEN r
         ELSE Created([r.vol[1] EXCEPT !.source_volid = None,
                                       !.snapshot_id = snapshot_id])

_create_volume(vols, snaps, new_id, name, vol_size, request) ==
    IF request.volume_content_source.type = "none"
    THEN default_create_volume(new_id, name, vol_size)
    ELSE IF request.volume_content_source.type = "snapshot"
    THEN _create_from_snap(vols, snaps, new_id, request.volume_content_source.id,
                           vol_size, request.name)
    ELSE _create_from_vol(vols, new_id, request.volume_content_source.id,
                          vol_size, request.name)

-----------------------------------------------------------------------------
(* Controller: wire conversion *)

\* The parameters dict up to the topology check; "AttributeError" when the
\* record has no attribute of the name read.
WireBase(vol) ==
    [capacity_bytes |-> <<vol.size, GB>>,  \* vol.size * GB, kept as its factors
     volume_id |-> vol.id,
     volume_context |-> IF vol.volume_type_id # None
                        THEN TypeSpecs[vol.volume_type_id] ELSE EmptyMap]

WithTopology(parameters, topologies) ==
    IF topologies # <<>>
    THEN parameters @@ ("accessible_topology" :> topologies)
    ELSE parameters

_convert_volume_type(self, vol) ==
    IF vol.source_volid # None
    THEN IF HasAttr(vol, "source_vol_id")
         THEN Ok(WithTopology(WireBase(vol) @@ ("content_source" :>
                    [type |-> "volume", id |-> vol["source_vol_id"]]),
                 self.GRPC_TOPOLOGIES))
         ELSE Raise("AttributeError")
    ELSE IF vol.snapshot_id # None
    THEN Ok(WithTopology(WireBase(vol) @@ ("content_source" :>
               [type |-> "snapshot", id |-> vol.snapshot_id]),
            self.GRPC_TOPOLOGIES))
    ELSE Ok(WithTopology(WireBase(vol), self.GRPC_TOPOLOGIES))

-----------------------------------------------------------------------------
(* Controller: ValidateVolumeCapabilities *)

Capabilities == {"mount-single-writer", "block-multi-writer"}
SupportedCapabilities == {"mount-single-writer"}
CapabilityLists == {<<c>> : c \in Capabilities}
                   \cup {<<"mount-single-writer", "block-multi-writer">>}

\* The shared capability check: the message for the first capability the
\* plugin does not support, or the empty (falsy) message.
RECURSIVE _validate_capabilities_from(_, _)
_validate_capabilities_from(capabilities, i) ==
    IF i > Len(capabilities) THEN <<>>
    ELSE IF capabilities[i] \notin SupportedCapabilities
    THEN <<"Unsupported capability %s", capabilities[i]>>
    ELSE _validate_capabilities_from(capabilities, i + 1)

_validate_capabilities(capabilities) == _validate_capabilities_from(capabilities, 1)

\* dict.get: the value, or None for a key the mapping lacks.
MapGet(m, k) == IF k \in DOMAIN m THEN m[k] ELSE None

\* request.parameters is a sequence of <<key, value>> pairs with distinct
\* keys, in the order .items() yields them.
ParameterLists ==
    {<<>>} \cup {<<<<k, v>>>> : k \in Keys, v \in Vals}
    \cup {<<<<k1, v1>>, <<k2, v2>>>> :
            <<k1, v1, k2, v2>> \in {t \in Keys \X Vals \X Keys \X Vals : t[1] # t[3]}}

\* The loop of lines 138-142: the message for the first pair whose value
\* differs from the context's, or the empty message.
RECURSIVE CheckParameters(_, _, _)
CheckParameters(parameters, volume_context, i) ==
    IF i > Len(parameters) THEN <<>>
    ELSE LET k == parameters[i][1]
             v == parameters[i][2]
             v2 == MapGet(volume_context, k)
         IN IF v # v2 THEN <<"Parameter %s does not match", k>>
            ELSE CheckParameters(parameters, volume_context, i + 1)

ValidateResp_message(message) == Ok([message |-> message])
ValidateResp_confirmed(request) ==
    Ok([confirmed |-> [volume_context |-> request.volume_context,
                       volume_capabilities |-> request.volume_capabilities,
                       parameters |-> request.parameters]])

\* Only the first parameter compared.
ValidateVolumeCapabilities_firstonly(vols, request) ==
    LET vol == _get_vol(vols, request.volume_id)
        message == _validate_capabilities(request.volume_capabilities)
        mismatch == CheckParameters(SubSeq(request.parameters, 1, 1),
                                    request.volume_context, 1)
    IN IF vol = <<>>
       THEN Abort("NOT_FOUND", "Volume %s does not exist", request.volume_id)
       ELSE IF message # <<>> THEN ValidateResp_message(message)
       ELSE IF request.parameters # <<>> /\ mismatch # <<>>
       THEN ValidateResp_message(mismatch)
       ELSE ValidateResp_confirmed(request)

ValidateVolumeCapabilities(vols, request) ==
    LET vol == _get_vol(vols, request.volume_id)
        message == _validate_capabilities(request.volume_capabilities)
        mismatch == CheckParameters(request.parameters, request.volume_context, 1)
    IN IF vol = <<>>
       THEN Abort("NOT_FOUND", "Volume %s does not exist", request.volume_id)
       ELSE IF message # <<>> THEN ValidateResp_message(message)
       ELSE IF request.parameters # <<>> /\ mismatch # <<>>
       THEN ValidateResp_message(mismatch)
       ELSE ValidateResp_confirmed(request)

-----------------------------------------------------------------------------
(* Plugin instances and topology *)

BasePluginCapabilities == <<"CONTROLLER_SERVICE">>
\* CONF.NODE_TOPOLOGY: the empty mapping, or the node's segments
Configs == {[NODE_TOPOLOGY |-> EmptyMap], [NODE_TOPOLOGY |-> TopologySegments]}
\* types.Topology(segments=...)
Topology(segments) == [segments |-> segments]
NodeIds == {"node1"}

\* TopologyBase._init_topology: with a configured topology, register the
\* capability once and build the advertised topologies.
_init_topology(conf, capabilities, constraint_type) ==
    IF conf.NODE_TOPOLOGY # EmptyMap
    THEN [capabilities |-> IF \E i \in 1..Len(capabilities) :
                                  capabilities[i] = constraint_type
                           THEN capabilities
                           ELSE Append(capabilities, constraint_type),
          GRPC_TOPOLOGIES |-> <<Topology(conf.NODE_TOPOLOGY)>>]
    ELSE [capabilities |-> capabilities, GRPC_TOPOLOGIES |-> <<>>]

NodeInfoResp(node_id, node_topology) ==
    IF node_topology # <<>>
    THEN [node_id |-> node_id] @@ ("accessible_topology" :> node_topology)
    ELSE [node_id |-> node_id]

\* The topology built and the capability appended whatever the configuration
\* and whatever the list already holds.
Node__init__unchecked(conf, capabilities, node_id) ==
    LET topo_capab == VOLUME_ACCESSIBILITY_CONSTRAINTS
        node_topology == <<Topology(conf.NODE_TOPOLOGY)>>
    IN [capabilities |-> Append(capabilities, topo_capab),
        NODE_TOPOLOGY |-> node_topology,
        node_info_resp |-> NodeInfoResp(node_id, node_topology)]

\* Node.__init__: NODE_TOPOLOGY is None on the class and is set on the
\* instance only when the configuration carries a topology.
Node__init__(conf, capabilities, node_id) ==
    LET topo_capab == VOLUME_ACCESSIBILITY_CONSTRAINTS
        configured == conf.NODE_TOPOLOGY # EmptyMap
        node_topology == IF configured THEN <<Topology(conf.NODE_TOPOLOGY)>> ELSE <<>>
    IN [capabilities |->
            IF configured
               /\ ~ \E i \in 1..Len(capabilities) : capabilities[i] = topo_capab
            THEN Append(capabilities, topo_capab)
            ELSE capabilities,
        NODE_TOPOLOGY |-> node_topology,
        node_info_resp |-> NodeInfoResp(node_id, node_topology)]

Controller__init__(conf, capabilities) ==
    _init_topology(conf, capabilities, VOLUME_ACCESSIBILITY_CONSTRAINTS)

ControllerInstance(c) ==
    [kind |-> "Controller", GRPC_TOPOLOGIES |-> c.GRPC_TOPOLOGIES,
     NODE_TOPOLOGY |-> <<>>, node_info_resp |-> <<>>]

NodeInstance(n) ==
    [kind |-> "Node", GRPC_TOPOLOGIES |-> <<>>,
     NODE_TOPOLOGY |-> n.NODE_TOPOLOGY, node_info_resp |-> <<n.node_info_resp>>]

AllInstance(c, n) ==
    [kind |-> "All", GRPC_TOPOLOGIES |-> c.GRPC_TOPOLOGIES,
     NODE_TOPOLOGY |-> n.NODE_TOPOLOGY, node_info_resp |-> <<n.node_info_resp>>]

IsController(inst) == inst.kind \in {"Controller", "All"}
IsNode(inst) == inst.kind \in {"Node", "All"}

-----------------------------------------------------------------------------
(* Node: path and device resolution, usage measurement *)

Paths == {"/mnt/a"}
Devs == {"/dev/sda", "/dev/sdb"}
BindNames == ("v0" :> "/binds/v0") @@ ("v1" :> "/binds/v1") @@ ("v2" :> "/binds/v2")
             @@ ("v3" :> "/binds/v3") @@ ("v4" :> "/binds/v4") @@ ("v5" :> "/binds/v5")

\* os.stat(path).st_mode, or OSError
StatResults == {"OSError", "S_IFDIR", "S_IFBLK"}
S_ISDIR(st_mode) == st_mode = "S_IFDIR"

\* self._get_device(path): what the mount table gives for the path, a device,
\* the private bind of a volume mounted there, or nothing.
DevicesForPath(vols) == {None} \cup Devs \cup {BindNames[v] : v \in DOMAIN vols}

\* self._get_vol_device(volume_id): the device at the volume's private bind
\* path and that path; no device is recorded for an id without a record.
DevicesForVol(vols, volume_id) ==
    IF volume_id \in DOMAIN vols THEN {None} \cup Devs ELSE {None}
_get_vol_device(device, volume_id) == <<device, BindNames[volume_id]>>

\* os.statvfs(path): the structure, or nothing when the call raises OSError
StatvfsResults ==
    {<<>>} \cup {<<[f_frsize |-> 4, f_blocks |-> 2, f_bavail |-> a]>> : a \in {0, 1}}

\* open(size_name).read(): the text, or nothing when the file cannot be read
SizeTexts == {"2\n", ""}
SizeReads == {<<>>} \cup {<<t>> : t \in SizeTexts}
\* int(text): the number, or nothing when int() raises ValueError
ParseInt(text) == IF text = "2\n" THEN <<2>> ELSE <<>>

VolumeStatsResp(total, rest) ==
    Ok([usage |-> <<[unit |-> "BYTES", total |-> total] @@ rest>>])

\* The check of lines 216-218.
PathMismatch(device_for_path, device_for_vol, private_bind) ==
    device_for_vol = None \/ device_for_path # private_bind

\* Lines 220-238 on the result of the read the branch makes.
MeasureDir(stats) ==
    IF stats = <<>> THEN Raise("OSError")
    ELSE LET size == stats[1].f_frsize * stats[1].f_blocks
             available == stats[1].f_frsize * stats[1].f_bavail
             used == size - available
         IN VolumeStatsResp(size, [used |-> used, available |-> available])

MeasureBlock(read) ==
    IF read = <<>> THEN Raise("IOError")
    ELSE IF ParseInt(read[1]) = <<>> THEN Raise("ValueError")
    ELSE VolumeStatsResp(SECTOR * ParseInt(read[1])[1], EmptyMap)

-----------------------------------------------------------------------------
(* The per-key gate of common.Worker.unique *)

\* No handler behind the gate.
Gated_never(op) == FALSE

\* The handlers decorated with Worker.unique, and the request field that keys
\* the gate.
Gated(op) == op = "NodeGetVolumeStats"
GateKey(request) == request.volume_id

GateFree(locks, key) == key \notin DOMAIN locks

GateAcquire(locks, key, w) == locks @@ (key :> w)

\* The key kept when the body did not end with a response.
GateRelease_onsuccess(locks, key, out) ==
    IF out.code = "OK" THEN [k \in DOMAIN locks \ {key} |-> locks[k]] ELSE locks

\* Released whatever the body's result was.
GateRelease(locks, key, out) == [k \in DOMAIN locks \ {key} |-> locks[k]]

-----------------------------------------------------------------------------
(* Workers *)

Idle == [pc |-> "idle", req |-> [op |-> None], st_mode |-> None,
         device_for_path |-> None, device_for_vol |-> None, out |-> NoResult]

Received(request) == [Idle EXCEPT !.pc = "received", !.req = request]

Finish(w, out) == workers' = [workers EXCEPT ![w].pc = "exit", ![w].out = out]

ControllerIdx == {i \in 1..Len(instances) : IsController(instances[i])}
NodeIdx == {i \in 1..Len(instances) : IsNode(instances[i])}

ContentSources ==
    {[type |-> "none", id |-> None]}
    \cup {[type |-> "snapshot", id |-> s] : s \in SnapIds \cup {"s0"}}
    \cup {[type |-> "volume", id |-> v] : v \in ReqIds}

UnchangedProcess == UNCHANGED <<CONF, PLUGIN_CAPABILITIES, instances, pool>>
UnchangedStore == UNCHANGED <<volumes, snapshots>>

ReceiveCreateVolume(w) ==
    /\ workers[w].pc = "idle"
    /\ \E self \in ControllerIdx, name \in Names, size \in Sizes, src \in ContentSources :
         workers' = [workers EXCEPT ![w] =
            Received([op |-> "CreateVolume", self |-> self, name |-> name,
                      size |-> size, volume_content_source |-> src])]
    /\ UnchangedProcess /\ UnchangedStore /\ UNCHANGED CURRENT_WORKERS

\* CreateVolume of the base controller: _create_volume, then the record
\* converted for the response.
CreateVolume(w) ==
    /\ workers[w].pc = "received"
    /\ workers[w].req.op = "CreateVolume"
    /\ Cardinality(DOMAIN volumes) < MaxVols
    /\ LET request == workers[w].req
           r == _create_volume(volumes, snapshots, FreshId(volumes),
                               request.name, request.size, request)
       IN IF r.code # "OK"
          THEN /\ Finish(w, r)
               /\ volumes' = volumes
          ELSE LET vol == r.vol[1]
                   resp == _convert_volume_type(instances[request.self], vol)
               IN /\ volumes' = volumes @@ (vol.id :> vol)
                  /\ Finish(w, [code |-> resp.code, body |-> resp.body, vol |-> r.vol])
    /\ UnchangedProcess /\ UNCHANGED <<snapshots, CURRENT_WORKERS>>

ReceiveListVolumes(w) ==
    /\ workers[w].pc = "idle"
    /\ \E self \in ControllerIdx, token \in DOMAIN volumes :
         workers' = [workers EXCEPT ![w] =
            Received([op |-> "ListVolumes", self |-> self,
                      starting_token |-> token, max_entries |-> 1])]
    /\ UnchangedProcess /\ UnchangedStore /\ UNCHANGED CURRENT_WORKERS

\* ListVolumes of the base controller for a page of one entry: the record at
\* the token converted by _convert_volume_type.
ListVolumes(w) ==
    /\ workers[w].pc = "received"
    /\ workers[w].req.op = "ListVolumes"
    /\ LET request == workers[w].req
       IN Finish(w, _convert_volume_type(instances[request.self],
                                         volumes[request.starting_token]))
    /\ UnchangedProcess /\ UnchangedStore /\ UNCHANGED CURRENT_WORKERS

ReceiveValidateVolumeCapabilities(w) ==
    /\ workers[w].pc = "idle"
    /\ \E self \in ControllerIdx, id \in ReqIds, caps \in CapabilityLists,
          parameters \in ParameterLists, context \in Maps :
         workers' = [workers EXCEPT ![w] =
            Received([op |-> "ValidateVolumeCapabilities", self |-> self,
                      volume_id |-> id, volume_capabilities |-> caps,
                      parameters |-> parameters, volume_context |-> context])]
    /\ UnchangedProcess /\ UnchangedStore /\ UNCHANGED CURRENT_WORKERS

ServeValidateVolumeCapabilities(w) ==
    /\ workers[w].pc = "received"
    /\ workers[w].req.op = "ValidateVolumeCapabilities"
    /\ Finish(w, ValidateVolumeCapabilities(volumes, workers[w].req))
    /\ UnchangedProcess /\ UnchangedStore /\ UNCHANGED CURRENT_WORKERS

ReceiveNodeGetInfo(w) ==
    /\ workers[w].pc = "idle"
    /\ \E self \in NodeIdx :
         workers' = [workers EXCEPT ![w] =
            Received([op |-> "NodeGetInfo", self |-> self])]
    /\ UnchangedProcess /\ UnchangedStore /\ UNCHANGED CURRENT_WORKERS

NodeGetInfo(w) ==
    /\ workers[w].pc = "received"
    /\ workers[w].req.op = "NodeGetInfo"
    /\ Finish(w, Ok(instances[workers[w].req.self].node_info_resp[1]))
    /\ UnchangedProcess /\ UnchangedStore /\ UNCHANGED CURRENT_WORKERS

ReceiveNodeGetVolumeStats(w) ==
    /\ workers[w].pc = "idle"
    /\ \E self \in NodeIdx, id \in ReqIds, path \in Paths :
         workers' = [workers EXCEPT ![w] =
            Received([op |-> "NodeGetVolumeStats", self |-> self,
                      volume_id |-> id, volume_path |-> path])]
    /\ UnchangedProcess /\ UnchangedStore /\ UNCHANGED CURRENT_WORKERS

\* Entry into NodeGetVolumeStats through Worker.unique('volume_id'): wait
\* until no request holds the volume id, then hold it.
Acquire(w) ==
    /\ workers[w].pc = "received"
    /\ workers[w].req.op = "NodeGetVolumeStats"
    /\ IF Gated(workers[w].req.op)
       THEN /\ GateFree(CURRENT_WORKERS, GateKey(workers[w].req))
            /\ CURRENT_WORKERS' = GateAcquire(CURRENT_WORKERS, GateKey(workers[w].req), w)
       ELSE UNCHANGED CURRENT_WORKERS
    /\ workers' = [workers EXCEPT ![w].pc = "stat"]
    /\ UnchangedProcess /\ UnchangedStore

\* Lines 206-211.
NodeGetVolumeStats_stat(w) ==
    /\ workers[w].pc = "stat"
    /\ \E st \in StatResults :
         IF st = "OSError"
         THEN Finish(w, Abort("NOT_FOUND", "Cannot access path %s",
                              workers[w].req.volume_path))
         ELSE workers' = [workers EXCEPT ![w].pc = "devices", ![w].st_mode = st]
    /\ UnchangedProcess /\ UnchangedStore /\ UNCHANGED CURRENT_WORKERS

\* Lines 213-218.
NodeGetVolumeStats_devices(w) ==
    /\ workers[w].pc = "devices"
    /\ \E device_for_path \in DevicesForPath(volumes),
          device \in DevicesForVol(volumes, workers[w].req.volume_id) :
         LET r == _get_vol_device(device, workers[w].req.volume_id)
             device_for_vol == r[1]
             private_bind == r[2]
             located == [workers[w] EXCEPT !.device_for_path = device_for_path,
                                           !.device_for_vol = device_for_vol]
         IN IF PathMismatch(device_for_path, device_for_vol, private_bind)
            THEN workers' = [workers EXCEPT ![w] =
                    [located EXCEPT !.pc = "exit",
                         !.out = Abort("NOT_FOUND",
                                       "Path does not match with requested volume", None)]]
            ELSE workers' = [workers EXCEPT ![w] = [located EXCEPT !.pc = "measure"]]
    /\ UnchangedProcess /\ UnchangedStore /\ UNCHANGED CURRENT_WORKERS

\* Lines 220-238.
NodeGetVolumeStats_measure(w) ==
    /\ workers[w].pc = "measure"
    /\ IF S_ISDIR(workers[w].st_mode)
       THEN \E stats \in StatvfsResults : Finish(w, MeasureDir(stats))
       ELSE \E read \in SizeReads : Finish(w, MeasureBlock(read))
    /\ UnchangedProcess /\ UnchangedStore /\ UNCHANGED CURRENT_WORKERS

\* The handler returns or raises; a gated handler leaves the gate.
Return(w) ==
    /\ workers[w].pc = "exit"
    /\ workers' = [workers EXCEPT ![w] = Idle]
    /\ CURRENT_WORKERS' =
          IF Gated(workers[w].req.op)
          THEN GateRelease(CURRENT_WORKERS, GateKey(workers[w].req), workers[w].out)
          ELSE CURRENT_WORKERS
    /\ UnchangedProcess /\ UnchangedStore

-----------------------------------------------------------------------------
(* Construction of plugin instances *)

UnchangedServing == UNCHANGED <<CONF, volumes, snapshots, pool, workers, CURRENT_WORKERS>>

NewController ==
    /\ Len(instances) < MaxInstances
    /\ LET c == Controller__init__(CONF, PLUGIN_CAPABILITIES)
       IN /\ PLUGIN_CAPABILITIES' = c.capabilities
          /\ instances' = Append(instances, ControllerInstance(c))
    /\ UnchangedServing

NewNode ==
    /\ Len(instances) < MaxInstances
    /\ \E node_id \in NodeIds :
         LET n == Node__init__(CONF, PLUGIN_CAPABILITIES, node_id)
         IN /\ PLUGIN_CAPABILITIES' = n.capabilities
            /\ instances' = Append(instances, NodeInstance(n))
    /\ UnchangedServing

\* All.__init__: Controller.__init__, then Node.__init__.
NewAll ==
    /\ Len(instances) < MaxInstances
    /\ \E node_id \in NodeIds :
         LET c == Controller__init__(CONF, PLUGIN_CAPABILITIES)
             n == Node__init__(CONF, c.capabilities, node_id)
         IN /\ PLUGIN_CAPABILITIES' = n.capabilities
            /\ instances' = Append(instances, AllInstance(c, n))
    /\ UnchangedServing

-----------------------------------------------------------------------------
(* Specifications *)

SourceVolumes ==
    {VolumeRecord("v1", "n0", size, status, None, None, type) :
        size \in Sizes, status \in Statuses, type \in {None, "t1"}}

InitServing(p) ==
    /\ pool = p
    /\ workers = [w \in p |-> Idle]
    /\ CURRENT_WORKERS = <<>>
    /\ snapshots = ("s1" :> [id |-> "s1", volume_id |-> "v1"])

\* A controller process with one source volume in the store.
InitController ==
    /\ CONF \in Configs
    /\ LET c == Controller__init__(CONF, BasePluginCapabilities)
       IN /\ PLUGIN_CAPABILITIES = c.capabilities
          /\ instances = <<ControllerInstance(c)>>
    /\ \E vol \in SourceVolumes : volumes = ("v1" :> vol)
    /\ InitServing({1})

NextCreate ==
    \/ \E w \in pool : ReceiveCreateVolume(w)
    \/ \E w \in pool : CreateVolume(w)
    \/ \E w \in pool : ReceiveListVolumes(w)
    \/ \E w \in pool : ListVolumes(w)
    \/ \E w \in pool : Return(w)

SpecCreate == InitController /\ [][NextCreate]_vars

NextValidate ==
    \/ \E w \in pool : ReceiveValidateVolumeCapabilities(w)
    \/ \E w \in pool : ServeValidateVolumeCapabilities(w)
    \/ \E w \in pool : Return(w)

SpecValidate == InitController /\ [][NextValidate]_vars

\* A node process with NumWorkers worker threads.
InitNode ==
    /\ CONF = [NODE_TOPOLOGY |-> EmptyMap]
    /\ LET n == Node__init__(CONF, BasePluginCapabilities, "node1")
       IN /\ PLUGIN_CAPABILITIES = n.capabilities
          /\ instances = <<NodeInstance(n)>>
    /\ volumes = ("v1" :> VolumeRecord("v1", "n0", 1, "in-use", None, None, None))
    /\ InitServing(1..NumWorkers)

NodeStep(w) ==
    \/ Acquire(w)
    \/ NodeGetVolumeStats_stat(w)
    \/ NodeGetVolumeStats_devices(w)
    \/ NodeGetVolumeStats_measure(w)
    \/ Return(w)

NextNode ==
    \/ \E w \in pool : ReceiveNodeGetVolumeStats(w)
    \/ \E w \in pool : Acquire(w)
    \/ \E w \in pool : NodeGetVolumeStats_stat(w)
    \/ \E w \in pool : NodeGetVolumeStats_devices(w)
    \/ \E w \in pool : NodeGetVolumeStats_measure(w)
    \/ \E w \in pool : Return(w)

SpecNode == InitNode /\ [][NextNode]_vars

\* Every worker thread that can take a step of its handler eventually does.
FairNode == SpecNode /\ \A w \in 1..NumWorkers : WF_vars(NodeStep(w))

\* A process in which instances are constructed and then serve.
InitTopology ==
    /\ CONF \in Configs
    /\ PLUGIN_CAPABILITIES = BasePluginCapabilities
    /\ instances = <<>>
    /\ \E vol \in {v \in SourceVolumes : v.size = 1 /\ v.status = "available"} :
          volumes = ("v1" :> vol)
    /\ InitServing({1})

NextTopology ==
    \/ NewController
    \/ NewNode
    \/ NewAll
    \/ \E w \in pool : ReceiveListVolumes(w)
    \/ \E w \in pool : ListVolumes(w)
    \/ \E w \in pool : ReceiveNodeGetInfo(w)
    \/ \E w \in pool : NodeGetInfo(w)
    \/ \E w \in pool : Return(w)

SpecTopology == InitTopology /\ [][NextTopology]_vars

\* One process serving the controller and the node service (All), one request
\* at a time.
InitAll ==
    /\ CONF \in Configs
    /\ LET c == Controller__init__(CONF, BasePluginCapabilities)
           n == Node__init__(CONF, c.capabilities, "node1")
       IN /\ PLUGIN_CAPABILITIES = n.capabilities
          /\ instances = <<AllInstance(c, n)>>
    /\ volumes = ("v1" :> VolumeRecord("v1", "n0", 1, "available", None, None, "t1"))
    /\ InitServing({1})

NextAll ==
    \/ \E w \in pool : ReceiveCreateVolume(w)
    \/ \E w \in pool : CreateVolume(w)
    \/ \E w \in pool : ReceiveValidateVolumeCapabilities(w)
    \/ \E w \in pool : ServeValidateVolumeCapabilities(w)
    \/ \E w \in pool : ReceiveNodeGetVolumeStats(w)
    \/ \E w \in pool : Acquire(w)
    \/ \E w \in pool : NodeGetVolumeStats_stat(w)
    \/ \E w \in pool : NodeGetVolumeStats_devices(w)
    \/ \E w \in pool : NodeGetVolumeStats_measure(w)
    \/ \E w \in pool : Return(w)

SpecAll == InitAll /\ [][NextAll]_vars

-----------------------------------------------------------------------------
(* Properties *)

AtExit(w, op) == workers[w].pc = "exit" /\ workers[w].req.op = op

Cloneable == {"available", "in-use"}

\* A step in which worker w serves a CreateVolume whose content source names
\* an existing volume.
CloneStep(w) ==
    /\ workers[w].pc = "received"
    /\ workers[w].req.op = "CreateVolume"
    /\ workers[w].req.volume_content_source.type = "volume"
    /\ workers[w].req.volume_content_source.id \in DOMAIN volumes
    /\ workers'[w].pc = "exit"

CloneSource(w) == volumes[workers[w].req.volume_content_source.id]

\* C1 as stated: for an existing source S and a requested size N the clone is
\* made iff S.status is available or in-use and S.size <= N; a disallowed
\* status gives INVALID_ARGUMENT, S.size > N gives OUT_OF_RANGE, and a
\* failed attempt creates nothing.
C1_AsStated ==
    [][\A w \in pool : CloneStep(w) =>
          LET S == CloneSource(w)
              N == workers[w].req.size
              out == workers'[w].out
          IN /\ (out.vol # <<>>) <=> (S.status \in Cloneable /\ S.size <= N)
             /\ S.status \notin Cloneable => out.code = "INVALID_ARGUMENT"
             /\ S.size > N => out.code = "OUT_OF_RANGE"
             /\ out.vol = <<>> => volumes' = volumes]_vars

\* C1 amended: the clone is made iff S.status is available or in-use and
\* S.size <= N; a disallowed status gives INVALID_ARGUMENT whatever the
\* sizes are, S.size > N gives OUT_OF_RANGE only when the status is allowed,
\* and a failed attempt creates nothing.
C1_StatusCheckedFirst ==
    [][\A w \in pool : CloneStep(w) =>
          LET S == CloneSource(w)
              N == workers[w].req.size
              out == workers'[w].out
          IN /\ (out.vol # <<>>) <=> (S.status \in Cloneable /\ S.size <= N)
             /\ S.status \notin Cloneable => out.code = "INVALID_ARGUMENT"
             /\ (S.status \in Cloneable /\ S.size > N) => out.code = "OUT_OF_RANGE"
             /\ out.vol = <<>> => volumes' = volumes]_vars

\* A clone of a source that is both in a disallowed status and bigger than
\* the requested size has been refused with INVALID_ARGUMENT.
C1_Witness ==
    \E w \in pool :
        /\ AtExit(w, "CreateVolume")
        /\ workers[w].req.volume_content_source.type = "volume"
        /\ workers[w].req.volume_content_source.id \in DOMAIN volumes
        /\ CloneSource(w).status \notin Cloneable
        /\ CloneSource(w).size > workers[w].req.size
        /\ workers[w].out.code = "INVALID_ARGUMENT"

\* C2: a CreateVolume from a source volume that creates a record creates one
\* with the requested name and size and with source_volid equal to the
\* source's id, stores it under a new id, and leaves the source record as it
\* was.
C2_CloneRecord ==
    [][\A w \in pool : (CloneStep(w) /\ workers'[w].out.vol # <<>>) =>
          LET src_id == workers[w].req.volume_content_source.id
              new == workers'[w].out.vol[1]
          IN /\ new.name = workers[w].req.name
             /\ new.size = workers[w].req.size
             /\ new.source_volid = src_id
             /\ volumes[src_id].id = src_id
             /\ new.id \notin DOMAIN volumes
             /\ new.id \in DOMAIN volumes' /\ volumes'[new.id] = new
             /\ volumes'[src_id] = volumes[src_id]]_vars

\* A clone bigger than its source has been created.
C2_Witness ==
    \E w \in pool :
        /\ AtExit(w, "CreateVolume")
        /\ workers[w].req.volume_content_source.type = "volume"
        /\ workers[w].out.vol # <<>>
        /\ workers[w].out.vol[1].size > CloneSource(w).size
        /\ workers[w].out.vol[1].name # CloneSource(w).name

\* C3 as stated: the conversion of every persisted record ends with a
\* response, whose content source is the volume source_volid when that is
\* set, the snapshot snapshot_id when only that is set, and absent otherwise.
C3_ConversionCompletes ==
    \A w \in pool : AtExit(w, "ListVolumes") =>
        LET vol == volumes[workers[w].req.starting_token]
            out == workers[w].out
        IN /\ out.code = "OK"
           /\ IF vol.source_volid # None
              THEN /\ "content_source" \in DOMAIN out.body
                   /\ out.body["content_source"] =
                          [type |-> "volume", id |-> vol.source_volid]
              ELSE IF vol.snapshot_id # None
              THEN /\ "content_source" \in DOMAIN out.body
                   /\ out.body["content_source"] =
                          [type |-> "snapshot", id |-> vol.snapshot_id]
              ELSE "content_source" \notin DOMAIN out.body

ParameterMismatches(parameters, context) ==
    {i \in 1..Len(parameters) : parameters[i][2] # MapGet(context, parameters[i][1])}

FirstOf(S) == CHOOSE i \in S : \A j \in S : i <= j

\* What C4 says of a validation of `parameters` against `context`.
ParametersVerdict(out, parameters, context) ==
    LET bad == ParameterMismatches(parameters, context)
    IN IF bad # {}
       THEN /\ "message" \in DOMAIN out.body
            /\ out.body.message =
                  <<"Parameter %s does not match", parameters[FirstOf(bad)][1]>>
       ELSE "confirmed" \in DOMAIN out.body

\* The validations C4 is about: the volume exists, the capabilities are
\* compatible and the request carries parameters.
ParametersChecked(w) ==
    /\ AtExit(w, "ValidateVolumeCapabilities")
    /\ workers[w].req.volume_id \in DOMAIN volumes
    /\ \A i \in 1..Len(workers[w].req.volume_capabilities) :
          workers[w].req.volume_capabilities[i] \in SupportedCapabilities
    /\ workers[w].req.parameters # <<>>

InBody(w) ==
    /\ workers[w].req.op = "NodeGetVolumeStats"
    /\ workers[w].pc \in {"stat", "devices", "measure", "exit"}

Waiting(w) == workers[w].req.op = "NodeGetVolumeStats" /\ workers[w].pc = "received"

C7_LockReleased ==
    /\ [](\A v \in DOMAIN CURRENT_WORKERS :
            /\ CURRENT_WORKERS[v] \in pool
            /\ InBody(CURRENT_WORKERS[v])
            /\ workers[CURRENT_WORKERS[v]].req.volume_id = v)
    /\ \A v \in ReqIds : []<>(v \notin DOMAIN CURRENT_WORKERS)

\* A gated request has ended with an error raised while measuring and still
\* holds its volume id.
C7_Witness ==
    \E w \in pool :
        /\ AtExit(w, "NodeGetVolumeStats")
        /\ workers[w].out.code \in {"OSError", "IOError", "ValueError"}
        /\ workers[w].req.volume_id \in DOMAIN CURRENT_WORKERS

\* C8 as stated: the handler goes on to measure, and returns a usage record,
\* only when a device is recorded for the volume id and the device resolved
\* from the path equals it; with an accessible path whose device differs from
\* the recorded one the request ends with NOT_FOUND.
C8_DeviceMustMatch ==
    \A w \in pool : workers[w].req.op = "NodeGetVolumeStats" =>
        /\ (workers[w].pc = "measure"
            \/ (workers[w].pc = "exit" /\ workers[w].out.code = "OK"))
           => /\ workers[w].device_for_vol # None
              /\ workers[w].device_for_path = workers[w].device_for_vol
        /\ (/\ workers[w].pc = "exit"
            /\ workers[w].st_mode # None
            /\ workers[w].device_for_path # workers[w].device_for_vol)
           => workers[w].out.code = "NOT_FOUND"

\* C9 as stated: NodeGetVolumeStats ends with a usage record or NOT_FOUND.
C9_OnlyNotFound ==
    \A w \in pool : AtExit(w, "NodeGetVolumeStats") =>
        workers[w].out.code \in {"OK", "NOT_FOUND"}

CountOf(seq, x) == Cardinality({i \in 1..Len(seq) : seq[i] = x})

\* C10: without a configured node topology no converted volume and no
\* NodeGetInfo response carries accessible_topology, whatever instances have
\* been constructed; and the accessibility capability is listed at most once.
C10_TopologyOmitted ==
    /\ CONF.NODE_TOPOLOGY = EmptyMap =>
          /\ \A w \in pool :
                (/\ workers[w].pc = "exit"
                 /\ workers[w].req.op \in {"ListVolumes", "NodeGetInfo"}
                 /\ workers[w].out.code = "OK")
                   => "accessible_topology" \notin DOMAIN workers[w].out.body
          /\ \A i \in 1..Len(instances) :
                /\ instances[i].GRPC_TOPOLOGIES = <<>>
                /\ instances[i].NODE_TOPOLOGY = <<>>
                /\ IsNode(instances[i]) =>
                      "accessible_topology" \notin DOMAIN instances[i].node_info_resp[1]
    /\ CountOf(PLUGIN_CAPABILITIES, VOLUME_ACCESSIBILITY_CONSTRAINTS) <= 1

\* Without a configured topology, the second instance constructed has
\* answered NodeGetInfo.
C10_Witness ==
    /\ CONF.NODE_TOPOLOGY = EmptyMap
    /\ Len(instances) >= 2
    /\ \E w \in pool :
          /\ AtExit(w, "NodeGetInfo")
          /\ workers[w].req.self = 2
          /\ workers[w].out.code = "OK"

====
